---- MODULE Spec2Model ----
(***************************************************************************)
(* DSIS SDK generator (generate_sdk.py, class DSISSDKGenerator): the       *)
(* schema-to-model translation engine as a state machine.                  *)
(*                                                                         *)
(* A Python str that the code inspects character by character (schema,     *)
(* class and file names) is a sequence of one-character strings.  A str    *)
(* that the code only compares, looks up or concatenates (field names,     *)
(* JSON type and format values, rendered type and Field(...) text) is a    *)
(* TLA+ string.  A JSON object is a function whose DOMAIN is its key set.  *)
(***************************************************************************)
EXTENDS Integers, Sequences, FiniteSets, TLC

VARIABLES
    model_group,       \* self.model_group
    source,            \* the schema source read by _load_schemas, in document order
    schemas,           \* the dict loaded by _load_schemas (insertion ordered)
    pc,                \* position inside generate_sdk
    idx,               \* position of the for loop of _generate_models
    generated_models,  \* self.generated_models
    files,             \* model files written under self.models_dir, by file name
    warnings,          \* schema names of the warnings the current generate_sdk call printed
    group_init,        \* models/<group>/__init__.py
    model_dirs,        \* the directories under models/
    main_init,         \* models/__init__.py as written by _update_main_models_init
    reported,          \* the model count printed at the end of generate_sdk
    clock,             \* the last value datetime.now() returned
    runs,              \* the number of generate_sdk calls started so far
    shelved            \* the contents of the other groups' directories under models/

vars == <<model_group, source, schemas, pc, idx, generated_models, files,
          warnings, group_init, model_dirs, main_init, reported, clock, runs,
          shelved>>

----------------------------------------------------------------------------
(* Bounds of the checked inputs *)

MaxNameLen == 4

MaxBatch == 3

MaxProps == 2

MaxClock == 1

MaxRuns == 3

MaxRunBatch == 2

\* the number of underscore-separated segments of a generated schema name
MaxSegments == 3

----------------------------------------------------------------------------
(* Characters and the str methods the code uses *)

UpperLetters ==
    <<"A", "B", "C", "D", "E", "F", "G", "H", "I", "J", "K", "L", "M",
      "N", "O", "P", "Q", "R", "S", "T", "U", "V", "W", "X", "Y", "Z">>

LowerLetters ==
    <<"a", "b", "c", "d", "e", "f", "g", "h", "i", "j", "k", "l", "m",
      "n", "o", "p", "q", "r", "s", "t", "u", "v", "w", "x", "y", "z">>

DigitChars == {"0", "1", "2", "3", "4", "5", "6", "7", "8", "9"}

Range(s) == {s[i] : i \in DOMAIN s}

IsUpper(c) == c \in Range(UpperLetters)

IsLower(c) == c \in Range(LowerLetters)

IsDigit(c) == c \in DigitChars

CharUpper(c) ==
    IF IsLower(c)
    THEN UpperLetters[CHOOSE i \in DOMAIN LowerLetters : LowerLetters[i] = c]
    ELSE c

CharLower(c) ==
    IF IsUpper(c)
    THEN LowerLetters[CHOOSE i \in DOMAIN UpperLetters : UpperLetters[i] = c]
    ELSE c

\* str.lower()
StrLower(s) == [i \in DOMAIN s |-> CharLower(s[i])]

\* str.capitalize(): first character upper-cased, the rest lower-cased
Capitalize(w) == [i \in DOMAIN w |-> IF i = 1 THEN CharUpper(w[i]) ELSE CharLower(w[i])]

\* sub in s   (substring test; sub is non-empty)
Contains(s, sub) ==
    \E i \in 1..(Len(s) - Len(sub) + 1) : SubSeq(s, i, i + Len(sub) - 1) = sub

RECURSIVE StrReplace(_, _)
\* s.replace(old, ""): every non-overlapping occurrence, leftmost first
StrReplace(s, old) ==
    IF Len(s) < Len(old) THEN s
    ELSE IF SubSeq(s, 1, Len(old)) = old
         THEN StrReplace(SubSeq(s, Len(old) + 1, Len(s)), old)
         ELSE <<s[1]>> \o StrReplace(Tail(s), old)

RECURSIVE StrSplit(_, _)
\* s.split(sep) for a one-character sep: the list of parts (empty parts kept)
StrSplit(s, sep) ==
    IF \A i \in DOMAIN s : s[i] # sep THEN <<s>>
    ELSE LET k == CHOOSE i \in DOMAIN s : s[i] = sep /\ \A j \in 1..(i - 1) : s[j] # sep
         IN  <<SubSeq(s, 1, k - 1)>> \o StrSplit(SubSeq(s, k + 1, Len(s)), sep)

RECURSIVE StrJoin(_)
\* "".join(parts)
StrJoin(parts) ==
    IF parts = <<>> THEN <<>> ELSE Head(parts) \o StrJoin(Tail(parts))

----------------------------------------------------------------------------
(* Identifier normalizer *)

CommonPrefix ==
    <<"O", "p", "e", "n", "W", "o", "r", "k", "s", "C", "o", "m", "m", "o", "n",
      "M", "o", "d", "e", "l", "_">>

NativeModelPrefix == <<"N", "a", "t", "i", "v", "e", "M", "o", "d", "e", "l", "_">>

NativePrefix == <<"N", "a", "t", "i", "v", "e", "_">>

\* lines 314-324: the entity base name
entity_base_name(schema_name, group) ==
    IF Contains(schema_name, <<".">>)
    THEN LET parts == StrSplit(schema_name, ".") IN parts[Len(parts)]
    ELSE IF group = "common" THEN StrReplace(schema_name, CommonPrefix)
    ELSE IF group = "native"
         THEN StrReplace(StrReplace(schema_name, NativeModelPrefix), NativePrefix)
    ELSE schema_name

\* pascal_case without its guard: every base name is split and capitalized
pascal_case_unguarded(entity_name) ==
    LET parts == StrSplit(entity_name, "_")
    IN  StrJoin([i \in DOMAIN parts |-> Capitalize(parts[i])])

\* pascal_case with word[0].upper() + word[1:] in place of word.capitalize()
pascal_case_rest_kept(entity_name) ==
    IF Contains(entity_name, <<"_">>)
    THEN LET parts == StrSplit(entity_name, "_")
         IN  StrJoin([i \in DOMAIN parts |->
                         [j \in DOMAIN parts[i] |->
                             IF j = 1 THEN CharUpper(parts[i][j]) ELSE parts[i][j]]])
    ELSE entity_name

\* lines 326-329: PascalCase when the base name holds an underscore
pascal_case(entity_name) ==
    IF Contains(entity_name, <<"_">>)
    THEN LET parts == StrSplit(entity_name, "_")
         IN  StrJoin([i \in DOMAIN parts |-> Capitalize(parts[i])])
    ELSE entity_name

\* lines 331-333: a lowercase first character is upper-cased
force_upper_first(entity_name) ==
    IF entity_name # <<>> /\ IsLower(entity_name[1])
    THEN <<CharUpper(entity_name[1])>> \o Tail(entity_name)
    ELSE entity_name

convert_schema_name_to_class_name(schema_name, group) ==
    force_upper_first(pascal_case(entity_base_name(schema_name, group)))

RECURSIVE LowerRunEnd(_, _)
\* greedy [a-z]+ : the last index of the run of lowercase letters that starts at j
LowerRunEnd(s, j) ==
    IF j + 1 <= Len(s) /\ IsLower(s[j + 1]) THEN LowerRunEnd(s, j + 1) ELSE j

RECURSIVE SubWordBoundary(_, _)
\* re.sub('(.)([A-Z][a-z]+)', r'\1_\2', s), scanning from index i
SubWordBoundary(s, i) ==
    IF i > Len(s) THEN <<>>
    ELSE IF i + 2 <= Len(s) /\ IsUpper(s[i + 1]) /\ IsLower(s[i + 2])
         THEN LET e == LowerRunEnd(s, i + 2)
              IN  <<s[i], "_">> \o SubSeq(s, i + 1, e) \o SubWordBoundary(s, e + 1)
         ELSE <<s[i]>> \o SubWordBoundary(s, i + 1)

RECURSIVE SubLowerUpper(_, _)
\* re.sub('([a-z0-9])([A-Z])', r'\1_\2', s), scanning from index i
SubLowerUpper(s, i) ==
    IF i > Len(s) THEN <<>>
    ELSE IF i + 1 <= Len(s) /\ (IsLower(s[i]) \/ IsDigit(s[i])) /\ IsUpper(s[i + 1])
         THEN <<s[i], "_", s[i + 1]>> \o SubLowerUpper(s, i + 2)
         ELSE <<s[i]>> \o SubLowerUpper(s, i + 1)

\* DimMatchLen for the pattern (\d)_?d_? : the trailing underscore optional
DimMatchLenTrailingOptional(s, i) ==
    IF i <= Len(s) /\ IsDigit(s[i])
    THEN IF i + 3 <= Len(s) /\ s[i + 1] = "_" /\ s[i + 2] = "d" /\ s[i + 3] = "_" THEN 4
         ELSE IF i + 2 <= Len(s) /\ s[i + 1] = "_" /\ s[i + 2] = "d" THEN 3
         ELSE IF i + 2 <= Len(s) /\ s[i + 1] = "d" /\ s[i + 2] = "_" THEN 3
         ELSE IF i + 1 <= Len(s) /\ s[i + 1] = "d" THEN 2
         ELSE 0
    ELSE 0

\* the length of the match of (\d)_?d_ at index i, 0 when there is none
DimMatchLen(s, i) ==
    IF i <= Len(s) /\ IsDigit(s[i])
    THEN IF i + 3 <= Len(s) /\ s[i + 1] = "_" /\ s[i + 2] = "d" /\ s[i + 3] = "_" THEN 4
         ELSE IF i + 2 <= Len(s) /\ s[i + 1] = "d" /\ s[i + 2] = "_" THEN 3
         ELSE 0
    ELSE 0

RECURSIVE SubDimension(_, _)
\* re.sub(r'(\d)_?d_', r'_\1d_', s), scanning from index i
SubDimension(s, i) ==
    IF i > Len(s) THEN <<>>
    ELSE IF DimMatchLen(s, i) > 0
         THEN <<"_", s[i], "d", "_">> \o SubDimension(s, i + DimMatchLen(s, i))
         ELSE <<s[i]>> \o SubDimension(s, i + 1)

\* re.sub(r'^(\d)_?d_', r'\1d_', s)
SubDimensionAtStart(s) ==
    IF DimMatchLen(s, 1) > 0
    THEN <<s[1], "d", "_">> \o SubSeq(s, 1 + DimMatchLen(s, 1), Len(s))
    ELSE s

\* the conversion with the two word-boundary substitutions left out
convert_class_name_lowercase_only(class_name) ==
    SubDimensionAtStart(SubDimension(StrLower(class_name), 1))

convert_class_name_to_file_name(class_name) ==
    LET s1     == SubWordBoundary(class_name, 1)
        result == StrLower(SubLowerUpper(s1, 1))
    IN  SubDimensionAtStart(SubDimension(result, 1))

reserved_words == {
    "and", "as", "assert", "break", "class", "continue", "def", "del", "elif", "else",
    "except", "exec", "finally", "for", "from", "global", "if", "import", "in", "is",
    "lambda", "not", "or", "pass", "print", "raise", "return", "try", "while", "with",
    "yield", "None", "True", "False", "type", "object", "str", "int", "float", "bool",
    "list", "dict", "tuple", "set", "frozenset", "bytes", "bytearray", "memoryview",
    "range", "enumerate", "zip", "map", "filter", "sorted", "reversed", "sum", "min",
    "max", "abs", "round", "len", "hash", "id", "repr", "ascii", "ord", "chr", "bin",
    "oct", "hex", "divmod", "pow", "callable", "isinstance", "issubclass", "hasattr",
    "getattr", "setattr", "delattr", "dir", "vars", "locals", "globals", "eval",
    "exec", "compile", "open", "input", "format", "property", "staticmethod",
    "classmethod", "super", "iter", "next", "slice", "complex", "Optional", "Union",
    "List", "Dict", "Tuple", "Set", "FrozenSet", "Any", "Callable", "Type", "TypeVar",
    "Generic", "Field", "BaseModel"
    }

\* lines 221-243
make_field_name_safe(field_name) ==
    IF field_name \in reserved_words THEN field_name \o "_field" ELSE field_name

----------------------------------------------------------------------------
(* JSON values.  A JSON object is [json |-> "object", members |-> f] with  *)
(* DOMAIN f its keys; any other JSON value (string, array, number, null)   *)
(* is [json |-> <its kind>].                                               *)

\* Python's None where the code compares it with str values
None == "<None>"

IsDict(v) == v.json = "object"

\* d.get(key, default) of a dict
DictGet(d, key, default) ==
    IF key \in DOMAIN d.members THEN d.members[key] ELSE default

\* the truth value of d.get(key) for a numeric member: absent (None) and 0 are false
NumTruthy(d, key) == key \in DOMAIN d.members /\ d.members[key] # 0

----------------------------------------------------------------------------
(* Type and constraint mapper *)

\* base_type with the format of a number ignored
base_type_number_format_ignored(field_schema) ==
    LET json_type   == DictGet(field_schema, "type", "string")
        format_type == DictGet(field_schema, "format", None)
    IN  IF json_type = "string"
        THEN IF format_type = "date" THEN "date"
             ELSE IF format_type \in {"time", "date-time"} THEN "datetime"
             ELSE IF format_type = "binary" THEN "bytes"
             ELSE "str"
        ELSE IF json_type = "number" THEN "Decimal"
        ELSE IF json_type = "integer" THEN "int"
        ELSE IF json_type = "boolean" THEN "bool"
        ELSE IF json_type = "array" THEN "list"
        ELSE IF json_type = "object" THEN "Dict[str, Any]"
        ELSE "Any"

\* base_type with field_schema.get('type') read without its default
base_type_no_default(field_schema) ==
    LET json_type   == DictGet(field_schema, "type", None)
        format_type == DictGet(field_schema, "format", None)
    IN  IF json_type = "string"
        THEN IF format_type = "date" THEN "date"
             ELSE IF format_type \in {"time", "date-time"} THEN "datetime"
             ELSE IF format_type = "binary" THEN "bytes"
             ELSE "str"
        ELSE IF json_type = "number"
        THEN IF format_type = "float" THEN "float" ELSE "Decimal"
        ELSE IF json_type = "integer" THEN "int"
        ELSE IF json_type = "boolean" THEN "bool"
        ELSE IF json_type = "array" THEN "list"
        ELSE IF json_type = "object" THEN "Dict[str, Any]"
        ELSE "Any"

\* lines 247-274: the base type
base_type(field_schema) ==
    LET json_type   == DictGet(field_schema, "type", "string")
        format_type == DictGet(field_schema, "format", None)
    IN  IF json_type = "string"
        THEN IF format_type = "date" THEN "date"
             ELSE IF format_type \in {"time", "date-time"} THEN "datetime"
             ELSE IF format_type = "binary" THEN "bytes"
             ELSE "str"
        ELSE IF json_type = "number"
        THEN IF format_type = "float" THEN "float" ELSE "Decimal"
        ELSE IF json_type = "integer" THEN "int"
        ELSE IF json_type = "boolean" THEN "bool"
        ELSE IF json_type = "array" THEN "list"
        ELSE IF json_type = "object" THEN "Dict[str, Any]"
        ELSE "Any"

\* map_json_schema_type with the Optional wrapper applied to every field
map_json_schema_type_always_optional(field_schema, is_required) ==
    "Optional[" \o base_type(field_schema) \o "]"

\* lines 245-280
map_json_schema_type(field_schema, is_required) ==
    IF is_required
    THEN base_type(field_schema)
    ELSE "Optional[" \o base_type(field_schema) \o "]"

\* generate_field_config with max_length attached whatever the schema type is
generate_field_config_any_type(field_schema, is_required) ==
    LET json_type   == DictGet(field_schema, "type", "string")
        format_type == DictGet(field_schema, "format", None)
        sql_type    == DictGet(field_schema, "sqlType", "")
    IN  (IF ~is_required THEN <<"default=None">> ELSE <<>>)
        \o (IF sql_type # ""
            THEN <<"description=\"SQL Type: " \o sql_type \o "\"">> ELSE <<>>)
        \o (IF /\ NumTruthy(field_schema, "maxLength")
               /\ format_type \notin {"date", "time", "date-time"}
            THEN <<"max_length=" \o ToString(field_schema.members["maxLength"])>>
            ELSE <<>>)
        \o (IF /\ NumTruthy(field_schema, "multipleOf")
               /\ json_type \in {"number", "integer"}
            THEN <<"multiple_of=" \o ToString(field_schema.members["multipleOf"])>>
            ELSE <<>>)

\* generate_field_config with multiple_of attached whatever the schema type is
generate_field_config_any_step(field_schema, is_required) ==
    LET json_type   == DictGet(field_schema, "type", "string")
        format_type == DictGet(field_schema, "format", None)
        sql_type    == DictGet(field_schema, "sqlType", "")
    IN  (IF ~is_required THEN <<"default=None">> ELSE <<>>)
        \o (IF sql_type # ""
            THEN <<"description=\"SQL Type: " \o sql_type \o "\"">> ELSE <<>>)
        \o (IF /\ NumTruthy(field_schema, "maxLength")
               /\ json_type = "string"
               /\ format_type \notin {"date", "time", "date-time"}
            THEN <<"max_length=" \o ToString(field_schema.members["maxLength"])>>
            ELSE <<>>)
        \o (IF NumTruthy(field_schema, "multipleOf")
            THEN <<"multiple_of=" \o ToString(field_schema.members["multipleOf"])>>
            ELSE <<>>)

\* lines 282-310: config_parts, the list that ', '.join renders
generate_field_config(field_schema, is_required) ==
    LET json_type   == DictGet(field_schema, "type", "string")
        format_type == DictGet(field_schema, "format", None)
        sql_type    == DictGet(field_schema, "sqlType", "")
    IN  (IF ~is_required THEN <<"default=None">> ELSE <<>>)
        \o (IF sql_type # ""
            THEN <<"description=\"SQL Type: " \o sql_type \o "\"">> ELSE <<>>)
        \o (IF /\ NumTruthy(field_schema, "maxLength")
               /\ json_type = "string"
               /\ format_type \notin {"date", "time", "date-time"}
            THEN <<"max_length=" \o ToString(field_schema.members["maxLength"])>>
            ELSE <<>>)
        \o (IF /\ NumTruthy(field_schema, "multipleOf")
               /\ json_type \in {"number", "integer"}
            THEN <<"multiple_of=" \o ToString(field_schema.members["multipleOf"])>>
            ELSE <<>>)

----------------------------------------------------------------------------
(* Field spec builder.  A rendered field line `<identifier>: <python_type>`*)
(* followed by ` = Field(<field_config joined by ', '>)`, by nothing or by *)
(* ` = None` is kept as its parts.                                         *)

\* with_alias without the branch for a non-empty field_config
with_alias_only_when_empty(field_config, safe_field_name, field_name) ==
    IF safe_field_name # field_name /\ field_config = <<>>
    THEN <<"alias=\"" \o field_name \o "\"">>
    ELSE field_config

\* lines 205-210: the alias appended when the name was changed
with_alias(field_config, safe_field_name, field_name) ==
    IF safe_field_name # field_name
    THEN Append(field_config, "alias=\"" \o field_name \o "\"")
    ELSE field_config

\* lines 197-219
generate_field_definition(field_name, field_schema, is_required) ==
    LET safe_field_name == make_field_name_safe(field_name)
        python_type     == map_json_schema_type(field_schema, is_required)
        field_config    == with_alias(generate_field_config(field_schema, is_required),
                                      safe_field_name, field_name)
    IN  [identifier   |-> safe_field_name,
         python_type  |-> python_type,
         field_config |-> field_config,
         form         |-> IF field_config # <<>> THEN "Field"
                          ELSE IF is_required THEN "bare" ELSE "None"]

\* field_schema.get raises AttributeError when the fragment is not a dict
field_definition_raises(field_schema) == ~IsDict(field_schema)

----------------------------------------------------------------------------
(* Entity emitter *)

\* schema_data.get('properties', {}).items(), in the document's order
properties_of(schema_data) == DictGet(schema_data, "properties", <<>>)

\* schema_data.get('required', [])
required_of(schema_data) == DictGet(schema_data, "required", <<>>)

\* class_fields with each field definition inserted at the front of the list
class_fields_reversed(schema_data) ==
    LET properties == properties_of(schema_data)
        n          == Len(properties)
    IN  [i \in DOMAIN properties |->
            generate_field_definition(
                properties[n + 1 - i].name, properties[n + 1 - i].schema,
                properties[n + 1 - i].name \in Range(required_of(schema_data)))]

\* lines 173-178: one field definition per property
class_fields(schema_data) ==
    LET properties == properties_of(schema_data)
    IN  [i \in DOMAIN properties |->
            generate_field_definition(
                properties[i].name, properties[i].schema,
                properties[i].name \in Range(required_of(schema_data)))]

\* lines 180-195: the statements after "# Model fields", each with the
\* number of spaces in front of it
fields_code(fields) ==
    IF fields # <<>>
    THEN [i \in DOMAIN fields |-> [indent |-> 4, stmt |-> "field", field |-> fields[i]]]
    ELSE <<[indent |-> 8, stmt |-> "pass"]>>

\* schema_name.replace('.', '_')
sql_table_name(schema_name) ==
    [i \in DOMAIN schema_name |-> IF schema_name[i] = "." THEN "_" ELSE schema_name[i]]

\* lines 167-195
generate_class_definition(class_name, schema_name, schema_data) ==
    [class_name     |-> class_name,
     schema_title   |-> schema_name,
     schema_id      |-> DictGet(schema_data, "$id", ""),
     sql_table_name |-> sql_table_name(schema_name),
     fields         |-> class_fields(schema_data),
     body           |-> fields_code(class_fields(schema_data))]

\* lines 115-131 raise when schema_data is not a dict (schema_data.get) or a
\* property fragment is not a dict (field_schema.get)
generate_model_code_raises(schema_data) ==
    \/ ~IsDict(schema_data)
    \/ \E i \in DOMAIN properties_of(schema_data) :
          field_definition_raises(properties_of(schema_data)[i].schema)

\* lines 133-165: the import block does not depend on the schema
generate_imports(schema_data) ==
    <<"from typing import Optional, Dict, Any",
      "from datetime import datetime, date",
      "from decimal import Decimal",
      "from pydantic import Field",
      "from .base import BaseModel">>

\* generate_model_code with the generation time written into the class docstring too
generate_model_code_class_dated(class_name, schema_name, schema_data, now) ==
    [class_name   |-> class_name,
     schema       |-> schema_name,
     generated_on |-> now,
     imports      |-> generate_imports(schema_data),
     class_code   |-> [generated_on |-> now]
                      @@ generate_class_definition(class_name, schema_name, schema_data)]

\* lines 115-131; now is the value datetime.now() returns for the docstring
generate_model_code(class_name, schema_name, schema_data, now) ==
    [class_name   |-> class_name,
     schema       |-> schema_name,
     generated_on |-> now,
     imports      |-> generate_imports(schema_data),
     class_code   |-> generate_class_definition(class_name, schema_name, schema_data)]

----------------------------------------------------------------------------
(* The file system under output_dir *)

BaseFileName == <<"b", "a", "s", "e">>

\* base.py as _create_base_model_file writes it
BaseModelFile == [class_name |-> <<"B", "a", "s", "e", "M", "o", "d", "e", "l">>]

\* open(path, 'w') followed by write: the file is created or replaced
WriteFile(fs, name, content) ==
    [f \in DOMAIN fs \cup {name} |-> IF f = name THEN content ELSE fs[f]]

NoFile == [exists |-> FALSE]

\* a mapping with no keys
EmptyMembers == [k \in {} |-> 0]

\* the order sorted() gives the directory names the model uses
DirOrder == <<"__pycache__", "common", "native", "other">>

RECURSIVE SortedDirs(_, _)
\* sorted(dirs): the members of dirs in DirOrder, from position i on
SortedDirs(dirs, i) ==
    IF i > Len(DirOrder) THEN <<>>
    ELSE (IF DirOrder[i] \in dirs THEN <<DirOrder[i]>> ELSE <<>>)
         \o SortedDirs(dirs, i + 1)

\* item.name.startswith('__')
StartsWithDunder(dir) == dir = "__pycache__"

\* datetime.now(): time does not run backwards; two reads may return the same value
Now(t) == t \in {clock, clock + 1} /\ t <= MaxClock

----------------------------------------------------------------------------
(* generate_sdk, one action per step *)

\* lines 47-60
CreateDirectories ==
    /\ pc = "create_directories"
    /\ model_dirs' = model_dirs \cup {model_group}
    /\ group_init' = IF group_init.exists THEN group_init
                     ELSE [exists |-> TRUE, group |-> model_group, stub |-> TRUE,
                           imports |-> <<>>, all |-> <<>>]
    /\ files' = IF BaseFileName \in DOMAIN files THEN files
                ELSE WriteFile(files, BaseFileName, BaseModelFile)
    /\ pc' = "load_schemas"
    /\ UNCHANGED <<model_group, source, schemas, idx, generated_models, warnings,
                   main_init, reported, clock, runs, shelved>>

\* lines 62-84
LoadSchemas ==
    /\ pc = "load_schemas"
    /\ schemas' = source
    /\ idx' = 1
    /\ pc' = "generate_models"
    /\ UNCHANGED <<model_group, source, generated_models, files, warnings,
                   group_init, model_dirs, main_init, reported, clock, runs, shelved>>

\* GenerateSingleModel with the entry recorded although no file was written
GenerateSingleModelUnwritten(schema_name, schema_data) ==
    LET class_name == convert_schema_name_to_class_name(schema_name, model_group)
        file_name  == convert_class_name_to_file_name(class_name)
    IN  \E now \in 0..MaxClock :
           /\ Now(now)
           /\ clock' = now
           /\ files' = files
           /\ generated_models' =
                 Append(generated_models,
                        [class_name  |-> class_name,
                         file_name   |-> file_name,
                         schema_name |-> schema_name])
           /\ UNCHANGED warnings

\* GenerateSingleModel with the entry inserted at the front of the list
GenerateSingleModelPrepending(schema_name, schema_data) ==
    LET class_name == convert_schema_name_to_class_name(schema_name, model_group)
        file_name  == convert_class_name_to_file_name(class_name)
    IN  \E now \in 0..MaxClock :
           /\ Now(now)
           /\ clock' = now
           /\ files' = WriteFile(files, file_name,
                          generate_model_code(class_name, schema_name, schema_data, now))
           /\ generated_models' =
                 <<[class_name  |-> class_name,
                    file_name   |-> file_name,
                    schema_name |-> schema_name]>> \o generated_models
           /\ UNCHANGED warnings

\* lines 94-113: the model file is written, then the entry is appended
GenerateSingleModel(schema_name, schema_data) ==
    LET class_name == convert_schema_name_to_class_name(schema_name, model_group)
        file_name  == convert_class_name_to_file_name(class_name)
    IN  \E now \in 0..MaxClock :
           /\ Now(now)
           /\ clock' = now
           /\ files' = WriteFile(files, file_name,
                          generate_model_code(class_name, schema_name, schema_data, now))
           /\ generated_models' =
                 Append(generated_models,
                        [class_name  |-> class_name,
                         file_name   |-> file_name,
                         schema_name |-> schema_name])
           /\ UNCHANGED warnings

\* the exception swallowed without a warning
WarnFailedSilently(schema_name) ==
    UNCHANGED <<warnings, files, generated_models, clock>>

\* lines 91-92: the exception is caught and the warning names the schema
WarnFailed(schema_name) ==
    /\ warnings' = Append(warnings, schema_name)
    /\ UNCHANGED <<files, generated_models, clock>>

\* lines 86-92: one iteration of the loop over schemas.items()
GenerateModels ==
    /\ pc = "generate_models"
    /\ idx <= Len(schemas)
    /\ IF generate_model_code_raises(schemas[idx].data)
       THEN WarnFailed(schemas[idx].name)
       ELSE GenerateSingleModel(schemas[idx].name, schemas[idx].data)
    /\ idx' = idx + 1
    /\ UNCHANGED <<model_group, source, schemas, pc, group_init, model_dirs,
                   main_init, reported, runs, shelved>>

\* main_models_dir.iterdir(): the directories in an order the file system picks
Listings(dirs) ==
    {l \in [1..Cardinality(dirs) -> dirs] : \A i, j \in DOMAIN l : l[i] = l[j] => i = j}

RECURSIVE SelectGroups(_)
\* lines 394-397: the listed names that do not start with '__', in listing order
SelectGroups(listing) ==
    IF listing = <<>> THEN <<>>
    ELSE (IF StartsWithDunder(Head(listing)) THEN <<>> ELSE <<Head(listing)>>)
         \o SelectGroups(Tail(listing))

\* update_main_models_init re-exporting the generator's own group only
update_main_models_init_own_group(listing) ==
    [exists  |-> TRUE,
     imports |-> <<model_group>>,
     all     |-> <<model_group>>]

\* update_main_models_init with the groups left in listing order
update_main_models_init_unsorted(listing) ==
    [exists  |-> TRUE,
     imports |-> SelectGroups(listing),
     all     |-> SelectGroups(listing)]

\* lines 388-417
update_main_models_init(listing) ==
    LET model_groups == SelectGroups(listing)
    IN  [exists  |-> TRUE,
         imports |-> SortedDirs(Range(model_groups), 1),
         all     |-> SortedDirs(Range(model_groups), 1)]

\* update_init_files with the imports in reverse list order
update_init_files_reversed(models, group, now) ==
    [exists       |-> TRUE,
     group        |-> group,
     stub         |-> FALSE,
     generated_on |-> now,
     imports      |-> [i \in DOMAIN models |->
                          [file_name  |-> models[Len(models) + 1 - i].file_name,
                           class_name |-> models[Len(models) + 1 - i].class_name]],
     all          |-> <<BaseModelFile.class_name>> \o
                      [i \in DOMAIN models |-> models[i].class_name]]

\* lines 352-378: the text of models/<group>/__init__.py
update_init_files(models, group, now) ==
    [exists       |-> TRUE,
     group        |-> group,
     stub         |-> FALSE,
     generated_on |-> now,
     imports      |-> [i \in DOMAIN models |->
                          [file_name  |-> models[i].file_name,
                           class_name |-> models[i].class_name]],
     all          |-> <<BaseModelFile.class_name>> \o
                      [i \in DOMAIN models |-> models[i].class_name]]

\* the file opened in append mode: the new text follows the old text
write_group_init_appending(old, content) ==
    IF old.exists /\ ~old.stub
    THEN [content EXCEPT !.imports = old.imports \o content.imports,
                         !.all = old.all \o content.all]
    ELSE content

\* lines 380-381: open(..., 'w') replaces whatever the file held
write_group_init(old, content) == content

\* lines 349-386, then lines 44-45
UpdateInitFiles ==
    /\ pc = "generate_models"
    /\ idx > Len(schemas)
    /\ \E now \in 0..MaxClock :
          /\ Now(now)
          /\ clock' = now
          /\ group_init' = write_group_init(group_init,
                              update_init_files(generated_models, model_group, now))
    /\ \E listing \in Listings(model_dirs) :
          main_init' = update_main_models_init(listing)
    /\ reported' = Len(generated_models)
    /\ pc' = "done"
    /\ UNCHANGED <<model_group, source, schemas, idx, generated_models, files,
                   warnings, model_dirs, runs, shelved>>

Next ==
    \/ CreateDirectories
    \/ LoadSchemas
    \/ GenerateModels
    \/ UpdateInitFiles

\* lines 27-29: generate_sdk() is called again on the same DSISSDKGenerator;
\* __init__ does not run again, so self.generated_models is kept
GenerateSdkAgain ==
    /\ pc = "done"
    /\ runs < MaxRuns
    /\ runs' = runs + 1
    /\ pc' = "create_directories"
    /\ schemas' = <<>>
    /\ idx' = 1
    /\ warnings' = <<>>
    /\ UNCHANGED <<model_group, source, generated_models, files, group_init,
                   model_dirs, main_init, reported, clock, shelved>>

\* models/<group>/ as it is on disk when a generator for group starts
DirectoryOf(group) ==
    IF group = model_group THEN [files |-> files, group_init |-> group_init]
    ELSE IF group \in DOMAIN shelved THEN shelved[group]
    ELSE [files |-> EmptyMembers, group_init |-> NoFile]

\* lines 20-25 and 27-29: a new DSISSDKGenerator for group on the same
\* output_dir, followed by generate_sdk() (lines 598-615)
NewGenerator(group) ==
    /\ pc = "done"
    /\ runs < MaxRuns
    /\ runs' = runs + 1
    /\ model_group' = group
    /\ generated_models' = <<>>
    /\ pc' = "create_directories"
    /\ schemas' = <<>>
    /\ idx' = 1
    /\ warnings' = <<>>
    /\ files' = DirectoryOf(group).files
    /\ group_init' = DirectoryOf(group).group_init
    /\ shelved' = IF group = model_group THEN shelved
                  ELSE [g \in (DOMAIN shelved \cup {model_group}) \ {group} |->
                           IF g = model_group
                           THEN [files |-> files, group_init |-> group_init]
                           ELSE shelved[g]]
    /\ UNCHANGED <<source, model_dirs, main_init, reported, clock>>

----------------------------------------------------------------------------
(* Inputs: schema documents, property fragments, schema names *)


Obj(members) == [json |-> "object", members |-> members]

\* a member that is present only when the value is not the absent marker
OptMember(key, value, absent) == IF value = absent THEN EmptyMembers ELSE key :> value

Property(name, schema) == [name |-> name, schema |-> schema]

Entry(name, data) == [name |-> name, data |-> data]

TypeValues ==
    {"string", "number", "integer", "boolean", "array", "object", "null", "String"}

FormatValues == {"date", "time", "date-time", "binary", "float", "uuid"}

\* every fragment over the keys the code reads; None and -1 mark an absent key
Fragments ==
    {Obj(OptMember("type", t, None) @@ OptMember("format", f, None)
         @@ OptMember("maxLength", ml, -1) @@ OptMember("multipleOf", mo, -1)
         @@ OptMember("sqlType", sq, None)) :
        t \in TypeValues \cup {None}, f \in FormatValues \cup {None},
        ml \in {-1, 0, 10}, mo \in {-1, 0, 2}, sq \in {None, "NUMBER"}}

\* a property value that is not a JSON object
NotAMapping == [json |-> "string"]

FieldNames == {"name", "count", "type", "type_field", "Optional", "id"}

PlainFragment == Obj("type" :> "string")

\* the schema of the end-to-end scenario
WidgetDoc ==
    Obj([properties |-> <<Property("name", Obj([type |-> "string", maxLength |-> 10])),
                          Property("count", Obj([type |-> "integer"]))>>,
         required   |-> <<"name">>])

EmptyDoc == Obj(EmptyMembers)

\* one well-formed property followed by one that is not a mapping
MalformedPropertyDoc ==
    Obj([properties |-> <<Property("name", PlainFragment),
                          Property("count", NotAMapping)>>,
         required   |-> <<"name">>])

\* a schema document that is not a JSON object
MalformedDoc == [json |-> "array"]

WidgetName ==
    <<"G", "r", "o", "u", "p", ".", "W", "i", "d", "g", "e", "t", "H", "e", "a", "d",
      "e", "r">>

BatchNames ==
    {WidgetName,
     <<"N", "a", "t", "i", "v", "e", "_", "B", "a", "s", "i", "n">>,
     <<"w", "e", "l", "l">>,
     <<"S", "Y", "S", ".", "G", "E", "O", "_", "C", "O", "L">>}

BatchDocs == {WidgetDoc, EmptyDoc, MalformedPropertyDoc, MalformedDoc}

Groups == {"common", "native", "other"}

\* the ordered mappings of at most n entries with distinct names
Mappings(entries, n) ==
    {m \in UNION {[1..k -> entries] : k \in 0..n} :
        \A i, j \in DOMAIN m : m[i].name = m[j].name => i = j}

Batches == Mappings({Entry(n, d) : n \in BatchNames, d \in BatchDocs}, MaxBatch)

NameAlphabet == {"a", "d", "D", "2", "_", "."}

CorpusNames ==
    {WidgetName,
     <<"S", "e", "i", "s", "m", "i", "c", "2", "D", "L", "i", "s", "t">>,
     <<"H", "e", "a", "d", "e", "r", "2", "D">>,
     <<"3", "D", "S", "u", "r", "v", "e", "y">>,
     <<"S", "Y", "S", ".", "G", "E", "O", "_", "C", "O", "L">>,
     <<"I", "S", "e", "t", "Q", "u", "e", "r", "y">>,
     CommonPrefix \o <<"W", "e", "l", "l">>,
     NativeModelPrefix \o <<"W", "e", "l", "l">>,
     NativePrefix \o <<"B", "a", "s", "i", "n">>,
     <<"R", "_">> \o NativePrefix \o <<"x">>}

Names == UNION {[1..k -> NameAlphabet] : k \in 1..MaxNameLen} \cup CorpusNames

\* one schema with any single property, or with several plainly typed ones,
\* or with one property that is not a mapping, or with one property named by
\* any of the reserved words
FieldDocs ==
    {Obj([properties |-> <<Property(w, PlainFragment)>>, required |-> r]) :
        w \in reserved_words, r \in {<<>>, <<"type", "Optional", "id">>}}
    \cup
    {Obj([properties |-> <<Property(n, f)>>, required |-> r]) :
        n \in {"name", "type", "Optional", "type_field"}, f \in Fragments,
        r \in {<<>>, <<"name", "type", "Optional", "type_field">>}}
    \cup
    {Obj([properties |-> m, required |-> r]) :
        m \in Mappings({Property(n, f) : n \in FieldNames,
                                         f \in {PlainFragment, NotAMapping}}, MaxProps),
        r \in {<<>>, <<"type", "name">>}}

FieldsSchemaName == <<"F", "i", "e", "l", "d", "s">>

----------------------------------------------------------------------------
(* Specifications: DSISSDKGenerator(...) followed by generate_sdk() *)

\* lines 20-25, on an output directory whose models/ holds the directories dirs
ConstructedOn(group, src, dirs) ==
    /\ model_group = group
    /\ source = src
    /\ schemas = <<>>
    /\ pc = "create_directories"
    /\ idx = 1
    /\ generated_models = <<>>
    /\ files = EmptyMembers
    /\ warnings = <<>>
    /\ group_init = NoFile
    /\ model_dirs = dirs
    /\ main_init = NoFile
    /\ reported = 0
    /\ clock = 0
    /\ runs = 1
    /\ shelved = EmptyMembers

\* lines 20-25, on an output directory that does not exist yet
Constructed(group, src) == ConstructedOn(group, src, {})

\* a batch of schema documents
Init == \E g \in Groups, b \in Batches : Constructed(g, b)

Spec == Init /\ [][Next]_vars

\* one schema, over every schema name
InitNames ==
    \E g \in Groups, n \in Names, d \in {WidgetDoc, MalformedDoc} :
        Constructed(g, <<Entry(n, d)>>)

SpecNames == InitNames /\ [][Next]_vars

\* one schema, over every property fragment and field name
InitFields == \E d \in FieldDocs : Constructed("common", <<Entry(FieldsSchemaName, d)>>)

SpecFields == InitFields /\ [][Next]_vars

\* schema names that differ in their namespace, their case or their separators
PairNames ==
    {WidgetName,
     <<"O", "t", "h", "e", "r", ".", "W", "i", "d", "g", "e", "t", "H", "e", "a", "d",
       "e", "r">>,
     <<"W", "i", "d", "g", "e", "t", "H", "e", "a", "d", "e", "r">>,
     <<"w", "i", "d", "g", "e", "t", "_", "h", "e", "a", "d", "e", "r">>,
     <<"w", "e", "l", "l">>}

\* one batch of distinct schema names on a freshly constructed generator
InitPairs ==
    \E g \in Groups :
        \E b \in Mappings({Entry(n, d) : n \in PairNames, d \in {WidgetDoc, EmptyDoc}},
                          MaxRunBatch) :
            Constructed(g, b)

SpecPairs == InitPairs /\ [][Next]_vars

\* name segments: lowercase words of two letters or more, a single letter, and
\* a word with a digit
NameSegments ==
    {<<"a", "d">>, <<"d", "d">>, <<"i", "d">>, <<"l", "o", "g">>,
     <<"w", "e", "l", "l">>, <<"a">>, <<"d", "2">>}

RECURSIVE JoinUnderscore(_)
\* "_".join(parts)
JoinUnderscore(parts) ==
    IF Len(parts) = 1 THEN Head(parts)
    ELSE Head(parts) \o <<"_">> \o JoinUnderscore(Tail(parts))

\* the underscore-separated names of up to MaxSegments segments
SnakeNames ==
    {JoinUnderscore(p) : p \in UNION {[1..k -> NameSegments] : k \in 1..MaxSegments}}

\* one well-formed schema under any underscore-separated name
InitSnake ==
    \E g \in Groups, n \in SnakeNames : Constructed(g, <<Entry(n, WidgetDoc)>>)

SpecSnake == InitSnake /\ [][Next]_vars

RunBatches ==
    Mappings({Entry(n, d) : n \in {WidgetName, <<"w", "e", "l", "l">>},
                            d \in {WidgetDoc, MalformedDoc}}, MaxRunBatch)

NextRuns ==
    \/ Next
    \/ GenerateSdkAgain
    \/ \E g \in Groups : NewGenerator(g)

\* up to MaxRuns calls of generate_sdk against one output directory, each on the
\* same generator or on a new one, over the same schema source
InitRuns ==
    \E g \in Groups, b \in RunBatches, dirs \in {{}, {"__pycache__"}} :
        ConstructedOn(g, b, dirs)

SpecRuns == InitRuns /\ [][NextRuns]_vars

----------------------------------------------------------------------------
(* Vocabulary of the checked properties *)

\* the positions of the schemas the loop of _generate_models has gone through
Processed == {i \in DOMAIN schemas : i < idx}

BatchOver == pc \in {"generate_models", "done"} /\ idx > Len(schemas)

\* how many entries of seq satisfy name = n
CountName(seq, n) == Cardinality({i \in DOMAIN seq : seq[i] = n})

ModelNames == [i \in DOMAIN generated_models |-> generated_models[i].schema_name]

Raised(i) == generate_model_code_raises(schemas[i].data)

\* the rendered fields of the model file written for generated_models[k]
FieldsOf(k) == files[generated_models[k].file_name].class_code.fields

\* the schema document generated_models[k] was generated from
DocOf(k) ==
    (CHOOSE e \in Range(schemas) : e.name = generated_models[k].schema_name).data

BaseTypes ==
    {"date", "datetime", "bytes", "str", "float", "Decimal", "int", "bool", "list",
     "Dict[str, Any]", "Any"}

OptionalTypes == {"Optional[" \o b \o "]" : b \in BaseTypes}

----------------------------------------------------------------------------
(* C1 *)

\* C1: once the batch is over, every schema whose generation raised has exactly
\* one warning naming it and no entry in generated_models, every other schema has
\* exactly one entry and no warning, and nothing else was warned about or added:
\* a failure does not stop the schemas after it from being processed.
C1_BatchPartialFailure ==
    BatchOver =>
        /\ \A i \in DOMAIN schemas :
              IF Raised(i)
              THEN /\ CountName(warnings, schemas[i].name) = 1
                   /\ CountName(ModelNames, schemas[i].name) = 0
              ELSE /\ CountName(warnings, schemas[i].name) = 0
                   /\ CountName(ModelNames, schemas[i].name) = 1
        /\ Len(warnings) + Len(generated_models) = Len(schemas)
        /\ (Len(schemas) = 3 /\ ~Raised(1) /\ Raised(2) /\ ~Raised(3)
              => Len(generated_models) = 2 /\ warnings = <<schemas[2].name>>)

\* three schemas, the second malformed: two entries, one warning naming the second
C1_Witness ==
    /\ pc = "done"
    /\ Len(schemas) = 3
    /\ ~Raised(1) /\ Raised(2) /\ ~Raised(3)
    /\ ModelNames = <<schemas[1].name, schemas[3].name>>
    /\ warnings = <<schemas[2].name>>

----------------------------------------------------------------------------
(* C2 *)

HasMalformedProperty(schema_data) ==
    /\ IsDict(schema_data)
    /\ \E i \in DOMAIN properties_of(schema_data) :
          ~IsDict(properties_of(schema_data)[i].schema)

WellFormedNames(schema_data) ==
    {properties_of(schema_data)[i].name :
        i \in {j \in DOMAIN properties_of(schema_data) :
                  IsDict(properties_of(schema_data)[j].schema)}}

\* C2: a processed schema with a property fragment that is not a mapping is still
\* generated: it has an entry in generated_models and its model file holds a field
\* for each of its well-formed properties.
C2_MalformedPropertySkipped ==
    \A i \in Processed :
        HasMalformedProperty(schemas[i].data) =>
            \E k \in DOMAIN generated_models :
                /\ generated_models[k].schema_name = schemas[i].name
                /\ {make_field_name_safe(n) : n \in WellFormedNames(schemas[i].data)}
                      = {FieldsOf(k)[j].identifier : j \in DOMAIN FieldsOf(k)}

----------------------------------------------------------------------------
(* C3 *)

\* the table of the claim, one row per (type, format) case
TableType(t, f) ==
    CASE t = "string" /\ f = "date" -> "date"
      [] t = "string" /\ f \in {"time", "date-time"} -> "datetime"
      [] t = "string" /\ f = "binary" -> "bytes"
      [] t = "string" /\ f \notin {"date", "time", "date-time", "binary"} -> "str"
      [] t = "number" /\ f = "float" -> "float"
      [] t = "number" /\ f # "float" -> "Decimal"
      [] t = "integer" -> "int"
      [] t = "boolean" -> "bool"
      [] t = "array" -> "list"
      [] t = "object" -> "Dict[str, Any]"
      [] OTHER -> "Any"

\* property j of the schema of generated_models[k]
PropertyOf(k, j) == properties_of(DocOf(k))[j]

WellFormed(schema_data) ==
    /\ IsDict(schema_data)
    /\ \A j \in DOMAIN properties_of(schema_data) :
          IsDict(properties_of(schema_data)[j].schema)

\* C3: every rendered field whose fragment carries a type has the base type the
\* table gives for its (type, format) pair, bare or wrapped in Optional[...]; and
\* no type value makes generation raise: a schema whose fragments are all
\* mappings is generated whatever their type values are.
C3_TypeMappingTable ==
    /\ \A k \in DOMAIN generated_models : \A j \in DOMAIN FieldsOf(k) :
          LET frag == PropertyOf(k, j).schema
              want == TableType(DictGet(frag, "type", None), DictGet(frag, "format", None))
          IN  "type" \in DOMAIN frag.members =>
                 FieldsOf(k)[j].python_type \in {want, "Optional[" \o want \o "]"}
    /\ \A i \in Processed :
          WellFormed(schemas[i].data) => CountName(ModelNames, schemas[i].name) = 1

\* a fragment with the unrecognized type String and format date was rendered as
\* Optional[Any]: no exception, and the format was not consulted
C3_Witness ==
    \E k \in DOMAIN generated_models : \E j \in DOMAIN FieldsOf(k) :
        LET frag == PropertyOf(k, j).schema
        IN  /\ DictGet(frag, "type", None) = "String"
            /\ DictGet(frag, "format", None) = "date"
            /\ FieldsOf(k)[j].python_type = "Optional[Any]"

----------------------------------------------------------------------------
(* C4 *)

IsRequired(k, j) == PropertyOf(k, j).name \in Range(required_of(DocOf(k)))

----------------------------------------------------------------------------
(* C5 *)

AliasOf(name) == "alias=\"" \o name \o "\""

\* the Field(...) arguments the checked fragments can produce besides an alias
NonAliasParts ==
    {"default=None", "description=\"SQL Type: NUMBER\"", "max_length=10",
     "multiple_of=2"}

\* C5: a property named by a reserved word W is rendered with identifier W_field
\* and alias="W"; any other property keeps its name and gets no alias.
C5_ReservedWordAlias ==
    \A k \in DOMAIN generated_models : \A j \in DOMAIN FieldsOf(k) :
        LET fd == FieldsOf(k)[j]
            W  == PropertyOf(k, j).name
        IN  IF W \in reserved_words
            THEN /\ fd.identifier = W \o "_field"
                 /\ fd.form = "Field"
                 /\ Range(fd.field_config) \ NonAliasParts = {AliasOf(W)}
                 /\ fd.field_config[Len(fd.field_config)] = AliasOf(W)
            ELSE /\ fd.identifier = W
                 /\ Range(fd.field_config) \subseteq NonAliasParts

\* the property named Optional was rendered as Optional_field with its alias
C5_Witness ==
    \E k \in DOMAIN generated_models : \E j \in DOMAIN FieldsOf(k) :
        /\ PropertyOf(k, j).name = "Optional"
        /\ FieldsOf(k)[j].identifier = "Optional_field"
        /\ AliasOf("Optional") \in Range(FieldsOf(k)[j].field_config)

----------------------------------------------------------------------------
(* C6 *)

\* C6: within one generated entity the field identifiers are pairwise distinct
\* and none of them is a reserved word.
C6_IdentifiersDistinct ==
    \A k \in DOMAIN generated_models :
        /\ \A i, j \in DOMAIN FieldsOf(k) :
              FieldsOf(k)[i].identifier = FieldsOf(k)[j].identifier => i = j
        /\ \A j \in DOMAIN FieldsOf(k) : FieldsOf(k)[j].identifier \notin reserved_words

----------------------------------------------------------------------------
(* C7 *)

\* C7: the class name of every generated model is non-empty and starts with an
\* uppercase letter.
C7_ClassNameValid ==
    \A k \in DOMAIN generated_models :
        /\ generated_models[k].class_name # <<>>
        /\ IsUpper(generated_models[k].class_name[1])

----------------------------------------------------------------------------
(* C8 *)

----------------------------------------------------------------------------
(* C9 *)

\* a non-empty sequence of non-empty runs of lowercase letters and digits,
\* separated by single underscores
IsSnakeIdentifier(f) ==
    /\ f # <<>>
    /\ \A i \in DOMAIN f : IsLower(f[i]) \/ IsDigit(f[i]) \/ f[i] = "_"
    /\ f[1] # "_"
    /\ f[Len(f)] # "_"
    /\ ~Contains(f, <<"_", "_">>)

\* C9: the file name of every generated model has no uppercase letter, no two
\* consecutive underscores, and is an underscore-separated identifier.
C9_FileNameShape ==
    \A k \in DOMAIN generated_models :
        /\ \A i \in DOMAIN generated_models[k].file_name :
              ~IsUpper(generated_models[k].file_name[i])
        /\ ~Contains(generated_models[k].file_name, <<"_", "_">>)
        /\ IsSnakeIdentifier(generated_models[k].file_name)

----------------------------------------------------------------------------
(* C10 *)

WidgetClassName == <<"W", "i", "d", "g", "e", "t", "H", "e", "a", "d", "e", "r">>

WidgetFileName == <<"w", "i", "d", "g", "e", "t", "_", "h", "e", "a", "d", "e", "r">>

\* the loop has just gone through the schema Group.WidgetHeader of the scenario
WidgetJustProcessed ==
    /\ pc = "generate_models"
    /\ idx > 1
    /\ schemas[idx - 1] = Entry(WidgetName, WidgetDoc)

\* C10: right after the scenario's schema is processed, the last entry of
\* generated_models is (WidgetHeader, widget_header, Group.WidgetHeader) and the
\* file widget_header holds class WidgetHeader with the two fields
\* `name: str = Field(max_length=10)` and
\* `count: Optional[int] = Field(default=None)`.
C10_WidgetHeaderScenario ==
    WidgetJustProcessed =>
        /\ generated_models # <<>>
        /\ generated_models[Len(generated_models)] =
              [class_name  |-> WidgetClassName,
               file_name   |-> WidgetFileName,
               schema_name |-> WidgetName]
        /\ WidgetFileName \in DOMAIN files
        /\ files[WidgetFileName].class_code.class_name = WidgetClassName
        /\ files[WidgetFileName].class_code.fields =
              <<[identifier   |-> "name",
                 python_type  |-> "str",
                 field_config |-> <<"max_length=10">>,
                 form         |-> "Field"],
                [identifier   |-> "count",
                 python_type  |-> "Optional[int]",
                 field_config |-> <<"default=None">>,
                 form         |-> "Field"]>>

\* the scenario's schema was processed as the second schema of a batch
C10_Witness ==
    /\ WidgetJustProcessed
    /\ idx = 3
    /\ Len(generated_models) = 2
    /\ generated_models[2].class_name = WidgetClassName

----------------------------------------------------------------------------
(* C11 *)

\* generate_sdk has returned
RunOver == pc = "done"

\* C11: when generate_sdk has returned, models/<group>/__init__.py holds exactly
\* one import `from .<file_name> import <class_name>` per entry of
\* generated_models, in list order, and its __all__ names "BaseModel" and then
\* the class name of every entry, and nothing else.
C11_GroupExportManifest ==
    RunOver =>
        /\ group_init.exists
        /\ ~group_init.stub
        /\ Len(group_init.imports) = Len(generated_models)
        /\ \A i \in DOMAIN generated_models :
              group_init.imports[i] =
                 [file_name  |-> generated_models[i].file_name,
                  class_name |-> generated_models[i].class_name]
        /\ Len(group_init.all) = Len(generated_models) + 1
        /\ group_init.all[1] = <<"B", "a", "s", "e", "M", "o", "d", "e", "l">>
        /\ \A i \in DOMAIN generated_models :
              group_init.all[i + 1] = generated_models[i].class_name

\* a manifest was written for two models with different class names
C11_Witness ==
    /\ RunOver
    /\ Len(generated_models) = 2
    /\ generated_models[1].class_name # generated_models[2].class_name
    /\ Len(group_init.imports) = 2

----------------------------------------------------------------------------
(* C12 *)

\* the manifest lists exactly the models of the list, in list order
ListedBy(manifest, models) ==
    /\ manifest.exists
    /\ ~manifest.stub
    /\ manifest.imports = [i \in DOMAIN models |->
                              [file_name  |-> models[i].file_name,
                               class_name |-> models[i].class_name]]

\* _update_init_files rebuilds a group manifest that was built from the same list
RebuildFromSameList ==
    /\ pc = "generate_models"
    /\ pc' = "done"
    /\ ListedBy(group_init, generated_models)

\* the manifest text without the time on its "Generated on:" line
Undated(manifest) == [manifest EXCEPT !.generated_on = 0]

\* C12 as claimed: rebuilding the group manifest from the same list of generated
\* models leaves the manifest text identical, whatever the time between the two
\* invocations.
C12_ManifestIdenticalOnRebuild ==
    [][RebuildFromSameList => group_init' = group_init]_vars

\* C12: rebuilding the group manifest from the same list of generated models
\* leaves the manifest text identical apart from the time on its
\* "Generated on:" line.
C12_ManifestIdenticalApartFromTime ==
    [][RebuildFromSameList => Undated(group_init') = Undated(group_init)]_vars

\* a manifest built at time 0 from the current, non-empty list is about to be
\* rebuilt by a later run at time 1
C12_Witness ==
    /\ pc = "generate_models"
    /\ idx > Len(schemas)
    /\ runs > 1
    /\ generated_models # <<>>
    /\ ListedBy(group_init, generated_models)
    /\ group_init.generated_on = 0
    /\ clock = 1

----------------------------------------------------------------------------
(* C13 *)

\* the position sorted() gives a directory name
DirRank(dir) == CHOOSE i \in DOMAIN DirOrder : DirOrder[i] = dir

\* the names are in strictly ascending sorted order
Ascending(names) ==
    \A i, j \in DOMAIN names : i < j => DirRank(names[i]) < DirRank(names[j])

\* C13: when generate_sdk has returned, models/__init__.py re-exports every
\* directory under models/ whose name does not start with `__`, and no other,
\* once each, in ascending sorted order in the imports and in __all__, whatever
\* the order in which the directory listing returned them.
C13_TopLevelManifestSorted ==
    RunOver =>
        /\ main_init.exists
        /\ Range(main_init.imports) = {d \in model_dirs : ~StartsWithDunder(d)}
        /\ Ascending(main_init.imports)
        /\ main_init.all = main_init.imports

\* three group directories and a __pycache__ directory were listed
C13_Witness ==
    /\ RunOver
    /\ model_dirs = {"__pycache__", "common", "native", "other"}
    /\ main_init.imports = <<"common", "native", "other">>

----------------------------------------------------------------------------
(* C14 *)

\* C14: when a run of generate_sdk has returned, the number of generated models
\* it reported equals the number of schemas loaded in that run minus the number
\* of failure warnings printed in that run, and every entry of generated_models
\* has a class name, a file name and a schema name.
C14_SuccessCountPerRun ==
    RunOver =>
        /\ reported = Len(schemas) - Len(warnings)
        /\ \A k \in DOMAIN generated_models :
              /\ DOMAIN generated_models[k] = {"class_name", "file_name", "schema_name"}
              /\ generated_models[k].class_name # <<>>
              /\ generated_models[k].file_name # <<>>
              /\ generated_models[k].schema_name # <<>>

----------------------------------------------------------------------------
(* C15 *)

\* the rendered field carries a max_length constraint
HasMaxLength(field) ==
    \E n \in 0..10 : "max_length=" \o ToString(n) \in Range(field.field_config)

\* C15 as claimed: max_length is attached only to fields whose resolved type is
\* str; never to a field resolved as date, datetime or bytes, nor to a field of
\* a non-string type.
C15_MaxLengthOnlyOnStr ==
    \A k \in DOMAIN generated_models : \A j \in DOMAIN FieldsOf(k) :
        HasMaxLength(FieldsOf(k)[j]) =>
            FieldsOf(k)[j].python_type \in {"str", "Optional[str]"}

\* C15: max_length is attached only to fields whose schema type is string (given,
\* or assumed because the fragment has no type) and whose format is not date,
\* time or date-time, which are the fields resolved as str or as bytes; never to
\* a field resolved as date or datetime, nor to a field of a non-string type; and
\* only with the non-zero maxLength of the fragment as its value.
C15_MaxLengthOnlyOnStrOrBytes ==
    \A k \in DOMAIN generated_models : \A j \in DOMAIN FieldsOf(k) :
        LET frag == PropertyOf(k, j).schema
        IN  HasMaxLength(FieldsOf(k)[j]) =>
               /\ DictGet(frag, "type", "string") = "string"
               /\ DictGet(frag, "format", None) \notin {"date", "time", "date-time"}
               /\ FieldsOf(k)[j].python_type \in
                     {"str", "Optional[str]", "bytes", "Optional[bytes]"}
               /\ DictGet(frag, "maxLength", 0) # 0
               /\ "max_length=" \o ToString(DictGet(frag, "maxLength", 0))
                     \in Range(FieldsOf(k)[j].field_config)

\* a string field with format binary and maxLength 10 was rendered as
\* Optional[bytes] with max_length=10
C15_Witness ==
    \E k \in DOMAIN generated_models : \E j \in DOMAIN FieldsOf(k) :
        /\ DictGet(PropertyOf(k, j).schema, "format", None) = "binary"
        /\ FieldsOf(k)[j].python_type = "Optional[bytes]"
        /\ "max_length=10" \in Range(FieldsOf(k)[j].field_config)

----------------------------------------------------------------------------
(* C16 *)

\* the model file _generate_single_model writes for schemas[i]
ModelFileOf(i) ==
    convert_class_name_to_file_name(
        convert_schema_name_to_class_name(schemas[i].name, model_group))

\* the file of schemas[idx] holds the text _generate_model_code returned at some
\* earlier time for the same class name, schema name and schema document
RenderedBefore ==
    /\ pc = "generate_models"
    /\ idx <= Len(schemas)
    /\ ~Raised(idx)
    /\ ModelFileOf(idx) \in DOMAIN files
    /\ "schema" \in DOMAIN files[ModelFileOf(idx)]
    /\ files[ModelFileOf(idx)].class_name =
          convert_schema_name_to_class_name(schemas[idx].name, model_group)
    /\ files[ModelFileOf(idx)].schema = schemas[idx].name
    /\ files[ModelFileOf(idx)].class_code.fields = class_fields(schemas[idx].data)

\* _generate_model_code is called again with the same three arguments
RenderedAgain == RenderedBefore /\ idx' = idx + 1

\* C16 as claimed: _generate_model_code called twice with the same class name,
\* schema name and schema document returns identical source text, whatever the
\* time between the two calls.
C16_RenderingIdentical ==
    [][RenderedAgain => files'[ModelFileOf(idx)] = files[ModelFileOf(idx)]]_vars

\* C16: _generate_model_code called twice with the same class name, schema name
\* and schema document returns source text that is identical apart from the time
\* on the "Generated on:" line of the module docstring.
C16_RenderingIdenticalApartFromTime ==
    [][RenderedAgain =>
          Undated(files'[ModelFileOf(idx)]) = Undated(files[ModelFileOf(idx)])]_vars

\* a model text rendered at time 0 is about to be rendered again at time 1 from
\* the same schema, which has fields
C16_Witness ==
    /\ RenderedBefore
    /\ runs > 1
    /\ files[ModelFileOf(idx)].generated_on = 0
    /\ files[ModelFileOf(idx)].class_code.fields # <<>>
    /\ clock = 1

----------------------------------------------------------------------------
(* C17 *)

\* class_name has a dimension marker at position p: one digit followed by D,
\* followed by a further capitalized word
MarkerAt(class_name, p) ==
    /\ p + 3 <= Len(class_name)
    /\ IsDigit(class_name[p])
    /\ class_name[p + 1] = "D"
    /\ IsUpper(class_name[p + 2])
    /\ IsLower(class_name[p + 3])

\* the marker after a letter is rendered as _2d_ / _3d_, never as 2_d_
MarkerMidName(class_name, file_name) ==
    \A p \in 2..Len(class_name) :
        (MarkerAt(class_name, p) /\ (IsUpper(class_name[p - 1]) \/ IsLower(class_name[p - 1])))
            => /\ Contains(file_name, <<"_", class_name[p], "d", "_">>)
               /\ ~Contains(file_name, <<class_name[p], "_", "d">>)

\* the marker at the very start is rendered as 2d_ / 3d_, with no leading underscore
MarkerAtStart(class_name, file_name) ==
    MarkerAt(class_name, 1) =>
        /\ Len(file_name) >= 3
        /\ file_name[1] = class_name[1]
        /\ file_name[2] = "d"
        /\ file_name[3] = "_"

\* C17: for every generated model whose class name has a dimension marker (one
\* digit followed by D) followed by a further capitalized word, the file name
\* renders the marker as _2d_ / _3d_ mid-name (never 2_d_), and as 2d_ / 3d_
\* with no leading underscore when the marker is at the very start of the name.
C17_DimensionMarker ==
    \A k \in DOMAIN generated_models :
        /\ MarkerMidName(generated_models[k].class_name, generated_models[k].file_name)
        /\ MarkerAtStart(generated_models[k].class_name, generated_models[k].file_name)

----------------------------------------------------------------------------
(* C18 *)

\* name without prefix when name starts with it, name itself otherwise
StripLeading(name, prefix) ==
    IF Len(name) >= Len(prefix) /\ SubSeq(name, 1, Len(prefix)) = prefix
    THEN SubSeq(name, Len(prefix) + 1, Len(name))
    ELSE name

\* the final dot-separated segment of a name that contains a dot
FinalSegment(name) ==
    LET last_dot == CHOOSE i \in DOMAIN name :
                        name[i] = "." /\ \A j \in DOMAIN name : j > i => name[j] # "."
    IN  SubSeq(name, last_dot + 1, Len(name))

\* the entity base name as the claim gives it
LeadingPrefixBaseName(schema_name, group) ==
    IF \E i \in DOMAIN schema_name : schema_name[i] = "." THEN FinalSegment(schema_name)
    ELSE IF group = "common" THEN StripLeading(schema_name, CommonPrefix)
    ELSE IF group = "native"
         THEN IF StripLeading(schema_name, NativeModelPrefix) # schema_name
              THEN StripLeading(schema_name, NativeModelPrefix)
              ELSE StripLeading(schema_name, NativePrefix)
    ELSE schema_name

\* C18: for every generated model, the entity base name is the final
\* dot-separated segment of a schema name that contains `.`, with no prefix
\* stripped from it; otherwise it is the schema name without its leading group
\* prefix only (OpenWorksCommonModel_ for common; NativeModel_ or Native_ for
\* native), any later occurrence of the marker kept; for any other group it is
\* the whole name.  The class name is built from that base name.
C18_EntityBaseName ==
    \A k \in DOMAIN generated_models :
        LET claimed == LeadingPrefixBaseName(generated_models[k].schema_name, model_group)
        IN  /\ entity_base_name(generated_models[k].schema_name, model_group) = claimed
            /\ generated_models[k].class_name = force_upper_first(pascal_case(claimed))

----------------------------------------------------------------------------
(* C19 *)

\* the schema names in load order
LoadOrder == [i \in DOMAIN schemas |-> schemas[i].name]

RECURSIVE IsSubsequence(_, _)
\* a can be obtained from b by leaving entries out, the order kept
IsSubsequence(a, b) ==
    IF a = <<>> THEN TRUE
    ELSE IF b = <<>> THEN FALSE
    ELSE IF Head(a) = Head(b) THEN IsSubsequence(Tail(a), Tail(b))
    ELSE IsSubsequence(a, Tail(b))

\* a step leaves generated_models alone or appends one entry at its end
AppendOnly ==
    \/ generated_models' = generated_models
    \/ /\ Len(generated_models') = Len(generated_models) + 1
       /\ SubSeq(generated_models', 1, Len(generated_models)) = generated_models

\* a step of the loop handles the next schema in load order and no other: the
\* position moves on by one, and an entry or a warning it adds names that schema
OneAtATime ==
    (pc = "generate_models" /\ pc' = "generate_models") =>
        /\ idx' = idx + 1
        /\ schemas' = schemas
        /\ generated_models' # generated_models =>
              generated_models'[Len(generated_models')].schema_name = schemas[idx].name
        /\ warnings' # warnings => warnings'[Len(warnings')] = schemas[idx].name
        /\ Len(generated_models') + Len(warnings') =
              Len(generated_models) + Len(warnings) + 1

\* C19: schemas are processed strictly one at a time in load order; in every
\* step generated_models stays the same or grows by one entry appended at its
\* end (nothing removed, replaced or reordered); and at any time, in particular
\* after the batch, the schema names of the entries are a subsequence of the
\* load order.
C19_OrderedAppendOnly ==
    /\ [][AppendOnly /\ OneAtATime]_vars
    /\ [](pc \in {"generate_models", "done"} => IsSubsequence(ModelNames, LoadOrder))

\* a batch of three is over, its second schema failed, and the entries are those
\* of the first and the third schema in that order
C19_Witness ==
    /\ BatchOver
    /\ Len(schemas) = 3
    /\ warnings = <<schemas[2].name>>
    /\ ModelNames = <<schemas[1].name, schemas[3].name>>
    /\ schemas[1].name # schemas[3].name

----------------------------------------------------------------------------
(* C20 *)

\* the statements after "# Model fields" in the model file of generated_models[k]
BodyOf(k) == files[generated_models[k].file_name].class_code.body

\* C20: the class body of every generated model is syntactically valid: for a
\* schema with no properties it holds a `pass` statement at the four-space
\* indentation of the other statements of the class body, and for a schema with
\* n >= 1 properties it holds n field lines, each at four spaces.
C20_ClassBodyIndentation ==
    \A k \in DOMAIN generated_models :
        /\ BodyOf(k) # <<>>
        /\ \A i \in DOMAIN BodyOf(k) : BodyOf(k)[i].indent = 4
        /\ properties_of(DocOf(k)) = <<>> =>
              Len(BodyOf(k)) = 1 /\ BodyOf(k)[1].stmt = "pass"
        /\ properties_of(DocOf(k)) # <<>> =>
              /\ Len(BodyOf(k)) = Len(properties_of(DocOf(k)))
              /\ \A i \in DOMAIN BodyOf(k) : BodyOf(k)[i].stmt = "field"

----------------------------------------------------------------------------
(* C21 *)

\* the rendered field carries a multiple_of constraint
HasMultipleOf(field) ==
    \E n \in 0..10 : "multiple_of=" \o ToString(n) \in Range(field.field_config)

\* C21: a rendered field carries multiple_of only when the schema type of its
\* fragment is number or integer and the fragment carries a multipleOf value,
\* which is the value attached; a field of type string, boolean, array, object,
\* of an unrecognized type or with no type never carries it.
C21_MultipleOfOnlyOnNumbers ==
    \A k \in DOMAIN generated_models : \A j \in DOMAIN FieldsOf(k) :
        LET frag == PropertyOf(k, j).schema
        IN  HasMultipleOf(FieldsOf(k)[j]) =>
               /\ "type" \in DOMAIN frag.members
               /\ frag.members["type"] \in {"number", "integer"}
               /\ "multipleOf" \in DOMAIN frag.members
               /\ "multiple_of=" \o ToString(frag.members["multipleOf"])
                     \in Range(FieldsOf(k)[j].field_config)
               /\ FieldsOf(k)[j].python_type \in
                     {"float", "Decimal", "int",
                      "Optional[float]", "Optional[Decimal]", "Optional[int]"}

\* a number field with format float and multipleOf 2 was rendered as
\* Optional[float] with multiple_of=2
C21_Witness ==
    \E k \in DOMAIN generated_models : \E j \in DOMAIN FieldsOf(k) :
        /\ DictGet(PropertyOf(k, j).schema, "type", None) = "number"
        /\ FieldsOf(k)[j].python_type = "Optional[float]"
        /\ "multiple_of=2" \in Range(FieldsOf(k)[j].field_config)

----------------------------------------------------------------------------
(* C22 *)

\* the name the field line stands for: its alias when it has one, else its identifier
WireName(field, name) ==
    IF field.identifier = name THEN name
    ELSE IF "alias=\"" \o name \o "\"" \in Range(field.field_config) THEN name
    ELSE field.identifier

\* C22: the model file of every generated model has exactly one field line per
\* entry of its schema's properties mapping, in the mapping's order: line j is
\* the field of property j (its name kept, or suffixed and aliased back to it);
\* every line being the line of a property, a name that is in the required
\* list but not in properties has no field.
C22_FieldOrder ==
    \A k \in DOMAIN generated_models :
        LET properties == properties_of(DocOf(k))
        IN  /\ Len(FieldsOf(k)) = Len(properties)
            /\ \A j \in DOMAIN properties :
                  /\ FieldsOf(k)[j].identifier \in
                        {properties[j].name, properties[j].name \o "_field"}
                  /\ WireName(FieldsOf(k)[j], properties[j].name) = properties[j].name

\* a schema with the two properties count and id, in that order, and the
\* required names type and name was rendered with the two fields count and
\* id_field (aliased to id)
C22_Witness ==
    \E k \in DOMAIN generated_models :
        /\ Len(FieldsOf(k)) = 2
        /\ FieldsOf(k)[1].identifier = "count"
        /\ FieldsOf(k)[2].identifier = "id_field"
        /\ "alias=\"id\"" \in Range(FieldsOf(k)[2].field_config)
        /\ required_of(DocOf(k)) = <<"type", "name">>

----------------------------------------------------------------------------
(* C23 *)

\* the schemas of the run that generate without raising
Succeeded == {i \in DOMAIN schemas : ~Raised(i)}

\* C23: when a run of generate_sdk has returned, whatever the number of runs
\* made on the generator before, generated_models holds each successfully
\* generated schema exactly once, the group manifest imports and names each
\* entity exactly once, and the reported count is the number of entities
\* generated in that run.
C23_OncePerSchemaAcrossRuns ==
    RunOver =>
        /\ \A i \in Succeeded : CountName(ModelNames, schemas[i].name) = 1
        /\ \A i, j \in DOMAIN group_init.imports :
              group_init.imports[i] = group_init.imports[j] => i = j
        /\ \A i, j \in DOMAIN group_init.all :
              group_init.all[i] = group_init.all[j] => i = j
        /\ reported = Cardinality(Succeeded)

----------------------------------------------------------------------------
(* C24 *)

\* C24: any two entries of generated_models made from distinct schema names of
\* the batch have distinct file names and distinct class names, so the model
\* file of every entry still holds the text generated for that entry's schema,
\* and once the manifest is written no class name is in its export list twice.
C24_NoCollisionInBatch ==
    /\ \A a, b \in DOMAIN generated_models :
          generated_models[a].schema_name # generated_models[b].schema_name =>
              /\ generated_models[a].file_name # generated_models[b].file_name
              /\ generated_models[a].class_name # generated_models[b].class_name
    /\ \A k \in DOMAIN generated_models :
          files[generated_models[k].file_name].schema = generated_models[k].schema_name
    /\ RunOver =>
          \A i, j \in DOMAIN group_init.all :
              group_init.all[i] = group_init.all[j] => i = j

----------------------------------------------------------------------------
(* C25 *)

\* every entry of the list names a model file that is on disk
AllWritten(entries) == \A i \in DOMAIN entries : entries[i].file_name \in DOMAIN files

\* the loop attempts a schema whose code generation raises
FailedAttempt ==
    /\ pc = "generate_models"
    /\ idx <= Len(schemas)
    /\ Raised(idx)
    /\ idx' = idx + 1

\* a manifest is written by _update_init_files or _update_main_models_init
ManifestWritten ==
    \/ group_init' # group_init /\ ~group_init'.stub
    \/ main_init' # main_init

\* C25: every entry of generated_models has a written model file in every
\* reachable state; a schema whose code generation raises writes no model file
\* and leaves generated_models unchanged; the group manifest and the top-level
\* manifest are written only after every schema of the batch has been
\* attempted; and the group manifest imports only modules whose file was
\* written.
C25_WriteThenRecord ==
    /\ [](AllWritten(generated_models))
    /\ [][FailedAttempt => files' = files /\ generated_models' = generated_models]_vars
    /\ [][ManifestWritten => BatchOver /\ Len(generated_models) + Len(warnings) = Len(schemas)]_vars
    /\ []((group_init.exists /\ ~group_init.stub) => AllWritten(group_init.imports))

\* a batch of three is over with one failure, and the manifest imports the two
\* modules that were written
C25_Witness ==
    /\ RunOver
    /\ Len(schemas) = 3
    /\ Len(warnings) = 1
    /\ Len(group_init.imports) = 2
    /\ group_init.imports[1].file_name # group_init.imports[2].file_name
    /\ AllWritten(group_init.imports)

----------------------------------------------------------------------------
(* C26 *)

\* a lowercase underscore-separated name whose segments each consist of at least
\* two lowercase letters
IsRoundTripName(n) ==
    /\ n # <<>>
    /\ \A i \in DOMAIN n : IsLower(n[i]) \/ n[i] = "_"
    /\ \A i \in DOMAIN StrSplit(n, "_") : Len(StrSplit(n, "_")[i]) >= 2

\* C26: for every generated model whose schema name is a lowercase
\* underscore-separated name with segments of at least two lowercase letters
\* each, converting the name to a class name and the class name to a file name
\* returns the schema name.
C26_NameRoundTrip ==
    \A k \in DOMAIN generated_models :
        IsRoundTripName(generated_models[k].schema_name) =>
            /\ generated_models[k].file_name = generated_models[k].schema_name
            /\ convert_class_name_to_file_name(generated_models[k].class_name)
                  = generated_models[k].schema_name

\* the three-segment name well_log_id went through both conversions and came back
C26_Witness ==
    \E k \in DOMAIN generated_models :
        /\ generated_models[k].schema_name =
              <<"w", "e", "l", "l", "_", "l", "o", "g", "_", "i", "d">>
        /\ generated_models[k].class_name =
              <<"W", "e", "l", "l", "L", "o", "g", "I", "d">>
        /\ generated_models[k].file_name = generated_models[k].schema_name

----------------------------------------------------------------------------
(* C27 *)

NotUnderscore(c) == c # "_"

\* the segments of base concatenated, the first character of each segment
\* uppercased and its other characters lowercased
SegmentsCapitalized(base) ==
    SelectSeq([i \in DOMAIN base |->
                  IF i = 1 \/ base[i - 1] = "_" THEN CharUpper(base[i])
                  ELSE CharLower(base[i])],
              NotUnderscore)

\* base kept verbatim except that a lowercase first character is uppercased
FirstUppercased(base) ==
    [i \in DOMAIN base |-> IF i = 1 THEN CharUpper(base[i]) ELSE base[i]]

\* C27: the class name of every generated model is, when the entity base name
\* contains an underscore, the concatenation of the base name's
\* underscore-separated segments, each with its first character uppercased and
\* its remaining characters lowercased; and when the base name contains no
\* underscore, the base name verbatim except that a lowercase first character
\* is uppercased.
C27_SegmentCapitalization ==
    \A k \in DOMAIN generated_models :
        LET base == entity_base_name(generated_models[k].schema_name, model_group)
        IN  generated_models[k].class_name =
               IF \E i \in DOMAIN base : base[i] = "_"
               THEN SegmentsCapitalized(base)
               ELSE FirstUppercased(base)

\* SYS.GEO_COL was generated as GeoCol
C27_Witness ==
    \E k \in DOMAIN generated_models :
        /\ generated_models[k].schema_name =
              <<"S", "Y", "S", ".", "G", "E", "O", "_", "C", "O", "L">>
        /\ generated_models[k].class_name = <<"G", "e", "o", "C", "o", "l">>

----------------------------------------------------------------------------
(* C28 *)

\* the fragment with "type": "string" written out
AsString(frag) ==
    [frag EXCEPT !.members =
        [key \in DOMAIN frag.members \cup {"type"} |->
            IF key = "type" THEN "string" ELSE frag.members[key]]]

\* the base type of a rendered field, its Optional[...] wrapper taken off
Unwrapped(field) ==
    CHOOSE b \in BaseTypes : field.python_type \in {b, "Optional[" \o b \o "]"}

\* C28: a rendered field whose fragment has no type key is rendered exactly as
\* the field of the same fragment with type string: its type is str, or date,
\* datetime or bytes according to its format, never Any, and a maxLength it
\* carries is attached as max_length the way it is for a string (the value
\* non-zero, the format not date, time or date-time).
C28_MissingTypeIsString ==
    \A k \in DOMAIN generated_models : \A j \in DOMAIN FieldsOf(k) :
        LET frag == PropertyOf(k, j).schema
        IN  "type" \notin DOMAIN frag.members =>
               /\ Unwrapped(FieldsOf(k)[j]) =
                     TableType("string", DictGet(frag, "format", None))
               /\ Unwrapped(FieldsOf(k)[j]) \in {"str", "date", "datetime", "bytes"}
               /\ FieldsOf(k)[j] =
                     generate_field_definition(PropertyOf(k, j).name, AsString(frag),
                                               IsRequired(k, j))
               /\ ( /\ DictGet(frag, "maxLength", 0) # 0
                    /\ DictGet(frag, "format", None) \notin {"date", "time", "date-time"} )
                  => "max_length=" \o ToString(DictGet(frag, "maxLength", 0))
                        \in Range(FieldsOf(k)[j].field_config)

\* a fragment with no type, no format and maxLength 10 was rendered as a str
\* field with max_length=10
C28_Witness ==
    \E k \in DOMAIN generated_models : \E j \in DOMAIN FieldsOf(k) :
        /\ DOMAIN PropertyOf(k, j).schema.members = {"maxLength"}
        /\ Unwrapped(FieldsOf(k)[j]) = "str"
        /\ "max_length=10" \in Range(FieldsOf(k)[j].field_config)

----------------------------------------------------------------------------
(* C29 *)

\* the groups generate_sdk has been run for against the output directory
GroupsGenerated == DOMAIN shelved \cup {model_group}

\* generate_all_models has returned: a run for common, then a run for native
AllModelsGenerated ==
    /\ RunOver
    /\ runs = 2
    /\ model_group = "native"
    /\ DOMAIN shelved = {"common"}

\* C29: no step removes a directory under models/; when a run of generate_sdk
\* has returned, the top-level manifest lists every group generated so far
\* against the output directory; and after generate_all_models it lists exactly
\* common and native, in that order.
C29_TopLevelAccumulates ==
    /\ [][model_dirs \subseteq model_dirs']_vars
    /\ [](RunOver => GroupsGenerated \subseteq Range(main_init.imports))
    /\ [](AllModelsGenerated =>
             /\ main_init.imports = <<"common", "native">>
             /\ main_init.all = <<"common", "native">>)

\* generate_all_models has returned and the manifest lists common and native
C29_Witness ==
    /\ AllModelsGenerated
    /\ main_init.imports = <<"common", "native">>
    /\ generated_models # <<>>

----------------------------------------------------------------------------
(* C30 *)

\* class_name ends with a dimension marker: one digit followed by D
EndsWithMarker(class_name) ==
    /\ Len(class_name) >= 2
    /\ IsDigit(class_name[Len(class_name) - 1])
    /\ class_name[Len(class_name)] = "D"

\* C30: for every generated model whose class name ends with the dimension
\* marker, the marker is split by the general rule and not corrected: the file
\* name ends with the digit, an underscore and d, and a lowercase letter before
\* the marker is followed directly by the digit (Header2D -> header2_d).
C30_TrailingMarkerSplit ==
    \A k \in DOMAIN generated_models :
        LET c == generated_models[k].class_name
            f == generated_models[k].file_name
        IN  EndsWithMarker(c) =>
               /\ Len(f) >= 3
               /\ SubSeq(f, Len(f) - 2, Len(f)) = <<c[Len(c) - 1], "_", "d">>
               /\ (Len(c) >= 3 /\ IsLower(c[Len(c) - 2])) =>
                     /\ Len(f) >= 4
                     /\ f[Len(f) - 3] = c[Len(c) - 2]

\* Header2D was generated with the file name header2_d
C30_Witness ==
    \E k \in DOMAIN generated_models :
        /\ generated_models[k].class_name = <<"H", "e", "a", "d", "e", "r", "2", "D">>
        /\ generated_models[k].file_name = <<"h", "e", "a", "d", "e", "r", "2", "_", "d">>

====
